---- MODULE Spec2Model ----
(***************************************************************************)
(* Model of the osascript crate (src/src/lib.rs): JavaScript::new,         *)
(* JavaScript::execute, JavaScript::execute_with_params, wrap_code and the *)
(* Error enum with its From conversions.                                   *)
(*                                                                         *)
(* Text is a sequence of characters.  A character is a one-character       *)
(* string, the token "U+E9" (a non-ASCII character, two bytes in UTF-8),   *)
(* or a longer ASCII string standing for that run of ASCII characters.     *)
(* Bytes are the same tokens for ASCII, and "xC3", "xA9", "xFF" for the    *)
(* bytes above 0x7F.                                                       *)
(***************************************************************************)
EXTENDS Integers, Sequences, FiniteSets, TLC

\* ------------------------------------------------------------------------
\* Bounds of the model
\* ------------------------------------------------------------------------

\* Number of concurrent callers in the concurrent configuration.
NumCalls == 2
\* Number of JavaScript objects (scripts) that exist.
NumScripts == 2
\* Largest integer passed as a parameter.
MaxNum == 1

\* ------------------------------------------------------------------------
\* UTF-8 (std::string::String::from_utf8, str bytes)
\* ------------------------------------------------------------------------

HighBytes == {"xC3", "xA9", "xFF"}

\* The UTF-8 bytes of a text (what write!(buf, "{}", s) appends).
RECURSIVE Utf8Encode(_)
Utf8Encode(text) ==
    IF text = <<>> THEN <<>>
    ELSE (IF Head(text) = "U+E9" THEN <<"xC3", "xA9">> ELSE <<Head(text)>>)
         \o Utf8Encode(Tail(text))

Digit == <<"0", "1", "2", "3", "4", "5", "6", "7", "8", "9">>

\* Decimal text of a small natural number.
RECURSIVE NatToText(_)
NatToText(k) ==
    IF k < 10 THEN <<Digit[k + 1]>>
    ELSE NatToText(k \div 10) \o <<Digit[(k % 10) + 1]>>

\* Utf8Scan(bytes, idx, acc): decode from the left; idx is the byte index of
\* Head(bytes) in the original vector.  Result: ok, the decoded text, or the
\* Display text of the Utf8Error.
RECURSIVE Utf8Scan(_, _, _)
Utf8Scan(bytes, idx, acc) ==
    IF bytes = <<>> THEN [ok |-> TRUE, val |-> acc, err |-> <<>>]
    ELSE LET b == Head(bytes) IN
         IF b \notin HighBytes
         THEN Utf8Scan(Tail(bytes), idx + 1, Append(acc, b))
         ELSE IF b = "xC3"
         THEN IF Len(bytes) = 1
              THEN [ok |-> FALSE, val |-> <<>>,
                    err |-> <<"incomplete utf-8 byte sequence from index ">>
                            \o NatToText(idx)]
              ELSE IF bytes[2] = "xA9"
              THEN Utf8Scan(Tail(Tail(bytes)), idx + 2, Append(acc, "U+E9"))
              ELSE [ok |-> FALSE, val |-> <<>>,
                    err |-> <<"invalid utf-8 sequence of 1 bytes from index ">>
                            \o NatToText(idx)]
         ELSE [ok |-> FALSE, val |-> <<>>,
               err |-> <<"invalid utf-8 sequence of 1 bytes from index ">>
                       \o NatToText(idx)]

\* String::from_utf8(vec): Ok(String) or Err(FromUtf8Error).
from_utf8(bytes) == Utf8Scan(bytes, 0, <<>>)

\* ------------------------------------------------------------------------
\* JSON values (what serde Serialize / Deserialize types carry)
\* ------------------------------------------------------------------------

\* t: "null", "num", "str", "arr", "obj"; "unser" is a Rust value whose
\* Serialize fails (a map whose keys are not strings); "undef" is the
\* JavaScript value undefined.  An object keeps its keys in k and the
\* values, in the same order, in a.
VNull == [t |-> "null", n |-> 0, s |-> <<>>, a |-> <<>>, k |-> <<>>]
VNum(x) == [t |-> "num", n |-> x, s |-> <<>>, a |-> <<>>, k |-> <<>>]
VStr(x) == [t |-> "str", n |-> 0, s |-> x, a |-> <<>>, k |-> <<>>]
VArr(x) == [t |-> "arr", n |-> 0, s |-> <<>>, a |-> x, k |-> <<>>]
VObj(keys, vals) == [t |-> "obj", n |-> 0, s |-> <<>>, a |-> vals, k |-> keys]
VUnser == [t |-> "unser", n |-> 0, s |-> <<>>, a |-> <<>>, k |-> <<>>]
VUndef == [t |-> "undef", n |-> 0, s |-> <<>>, a |-> <<>>, k |-> <<>>]

Quote == "\""
Backslash == "\\"
Newline == "\n"
Whitespace == {" ", Newline}

\* serde_json's escaping of a string's characters, as bytes.
RECURSIVE EscapeBytes(_)
EscapeBytes(text) ==
    IF text = <<>> THEN <<>>
    ELSE LET c == Head(text) IN
         (IF c = Quote THEN <<Backslash, Quote>>
          ELSE IF c = Backslash THEN <<Backslash, Backslash>>
          ELSE IF c = Newline THEN <<Backslash, "n">>
          ELSE IF c = "U+E9" THEN <<"xC3", "xA9">>
          ELSE <<c>>)
         \o EscapeBytes(Tail(text))

\* serde_json::to_writer(&mut buf, &params): the compact JSON bytes, or the
\* serde_json::Error of the first value that cannot be serialized.
RECURSIVE to_writer(_)
RECURSIVE SerItems(_, _, _)
SerItems(keys, vals, first) ==
    IF vals = <<>> THEN [ok |-> TRUE, out |-> <<>>, err |-> <<>>]
    ELSE LET h == to_writer(Head(vals))
             r == SerItems(IF keys = <<>> THEN <<>> ELSE Tail(keys), Tail(vals), FALSE)
             key == IF keys = <<>> THEN <<>>
                    ELSE <<Quote>> \o EscapeBytes(Head(keys)) \o <<Quote, ":">>
         IN  IF ~h.ok THEN h
             ELSE IF ~r.ok THEN r
             ELSE [ok |-> TRUE, err |-> <<>>,
                   out |-> (IF first THEN <<>> ELSE <<",">>) \o key \o h.out \o r.out]

to_writer(v) ==
    CASE v.t = "null" -> [ok |-> TRUE, out |-> <<"n", "u", "l", "l">>, err |-> <<>>]
      [] v.t = "num" -> [ok |-> TRUE, out |-> NatToText(v.n), err |-> <<>>]
      [] v.t = "str" -> [ok |-> TRUE, err |-> <<>>,
                         out |-> <<Quote>> \o EscapeBytes(v.s) \o <<Quote>>]
      [] v.t = "arr" -> LET r == SerItems(<<>>, v.a, TRUE) IN
                        IF r.ok THEN [r EXCEPT !.out = <<"[">> \o @ \o <<"]">>] ELSE r
      [] v.t = "obj" -> LET r == SerItems(v.k, v.a, TRUE) IN
                        IF r.ok THEN [r EXCEPT !.out = <<"{">> \o @ \o <<"}">>] ELSE r
      [] OTHER -> [ok |-> FALSE, out |-> <<>>, err |-> <<"key must be a string">>]

\* ------------------------------------------------------------------------
\* JSON parsing (serde_json::from_slice)
\* ------------------------------------------------------------------------

RECURSIVE SkipWs(_)
SkipWs(b) == IF b # <<>> /\ Head(b) \in Whitespace THEN SkipWs(Tail(b)) ELSE b

PErr(msg) == [ok |-> FALSE, val |-> VNull, rest |-> <<>>, err |-> <<msg>>]
POk(v, rest) == [ok |-> TRUE, val |-> v, rest |-> rest, err |-> <<>>]

DigitValue(c) == CHOOSE d \in 0..9 : Digit[d + 1] = c
IsDigit(c) == \E d \in 1..10 : Digit[d] = c

\* The digits after the first one of a number.
RECURSIVE ParseDigits(_, _)
ParseDigits(b, acc) ==
    IF b # <<>> /\ IsDigit(Head(b))
    THEN ParseDigits(Tail(b), acc * 10 + DigitValue(Head(b)))
    ELSE POk(VNum(acc), b)

ParseNumber(b) ==
    IF Head(b) = "0"
    THEN IF Len(b) > 1 /\ IsDigit(b[2]) THEN PErr("invalid number")
         ELSE POk(VNum(0), Tail(b))
    ELSE ParseDigits(Tail(b), DigitValue(Head(b)))

\* b starts after the opening quote.
RECURSIVE ParseStringBody(_, _)
ParseStringBody(b, acc) ==
    IF b = <<>> THEN PErr("EOF while parsing a string")
    ELSE LET c == Head(b) IN
         IF c = Quote THEN POk(VStr(acc), Tail(b))
         ELSE IF c = Backslash
         THEN IF Len(b) = 1 THEN PErr("EOF while parsing a string")
              ELSE IF b[2] \in {Quote, Backslash}
              THEN ParseStringBody(Tail(Tail(b)), Append(acc, b[2]))
              ELSE IF b[2] = "n"
              THEN ParseStringBody(Tail(Tail(b)), Append(acc, Newline))
              ELSE PErr("invalid escape")
         ELSE IF c = Newline
         THEN PErr("control character while parsing a string")
         ELSE IF c = "xC3" /\ Len(b) > 1 /\ b[2] = "xA9"
         THEN ParseStringBody(Tail(Tail(b)), Append(acc, "U+E9"))
         ELSE IF c \in HighBytes THEN PErr("invalid unicode code point")
         ELSE ParseStringBody(Tail(b), Append(acc, c))

ParseIdentNull(b) ==
    IF Len(b) < 4 THEN PErr("EOF while parsing a value")
    ELSE IF SubSeq(b, 1, 4) = <<"n", "u", "l", "l">>
    THEN POk(VNull, SubSeq(b, 5, Len(b)))
    ELSE PErr("expected ident")

RECURSIVE ParseValue(_)
RECURSIVE ParseArrayRest(_, _)
RECURSIVE ParseObjectRest(_, _, _)

\* b starts at an element; acc holds the elements parsed so far.
ParseArrayRest(b, acc) ==
    LET e == ParseValue(b) IN
    IF ~e.ok THEN e
    ELSE LET r == SkipWs(e.rest) IN
         IF r = <<>> THEN PErr("EOF while parsing a list")
         ELSE IF Head(r) = "]" THEN POk(VArr(Append(acc, e.val)), Tail(r))
         ELSE IF Head(r) = "," THEN ParseArrayRest(Tail(r), Append(acc, e.val))
         ELSE PErr("expected , or ]")

\* b starts at a key; keys and vals hold the members parsed so far.
ParseObjectRest(b, keys, vals) ==
    LET b1 == SkipWs(b) IN
    IF b1 = <<>> THEN PErr("EOF while parsing an object")
    ELSE IF Head(b1) # Quote THEN PErr("key must be a string")
    ELSE LET key == ParseStringBody(Tail(b1), <<>>) IN
    IF ~key.ok THEN key
    ELSE LET b2 == SkipWs(key.rest) IN
    IF b2 = <<>> THEN PErr("EOF while parsing an object")
    ELSE IF Head(b2) # ":" THEN PErr("expected :")
    ELSE LET e == ParseValue(Tail(b2)) IN
    IF ~e.ok THEN e
    ELSE LET r == SkipWs(e.rest) IN
         IF r = <<>> THEN PErr("EOF while parsing an object")
         ELSE IF Head(r) = "}"
         THEN POk(VObj(Append(keys, key.val.s), Append(vals, e.val)), Tail(r))
         ELSE IF Head(r) = ","
         THEN ParseObjectRest(Tail(r), Append(keys, key.val.s), Append(vals, e.val))
         ELSE PErr("expected , or }")

\* One JSON value at the front of b, and the bytes that follow it.
ParseValue(b0) ==
    LET b == SkipWs(b0) IN
    IF b = <<>> THEN PErr("EOF while parsing a value")
    ELSE LET c == Head(b) IN
         IF c = "n" THEN ParseIdentNull(b)
         ELSE IF IsDigit(c) THEN ParseNumber(b)
         ELSE IF c = Quote THEN ParseStringBody(Tail(b), <<>>)
         ELSE IF c = "["
         THEN LET r == SkipWs(Tail(b)) IN
              IF r # <<>> /\ Head(r) = "]" THEN POk(VArr(<<>>), Tail(r))
              ELSE ParseArrayRest(Tail(b), <<>>)
         ELSE IF c = "{"
         THEN LET r == SkipWs(Tail(b)) IN
              IF r # <<>> /\ Head(r) = "}" THEN POk(VObj(<<>>, <<>>), Tail(r))
              ELSE ParseObjectRest(Tail(b), <<>>, <<>>)
         ELSE PErr("expected value")

\* The types D: DeserializeOwned a caller asks for.
\*   Value: serde_json::Value;  u64;  String;  Unit: ();  VecU64: Vec<u64>;
\*   AlertResult: the struct of the crate example, one String field button
\*   renamed from "buttonReturned".
Targets == {"Value", "u64", "String", "Unit", "VecU64", "AlertResult"}

KeyIndex(v, key) == {i \in 1..Len(v.k) : v.k[i] = key}

\* Deserialize for D over a parsed value: Ok(the D value) or a data error.
IntoTarget(v, D) ==
    CASE D = "Value" -> [ok |-> TRUE, val |-> v, err |-> <<>>]
      [] D = "u64" /\ v.t = "num" -> [ok |-> TRUE, val |-> v, err |-> <<>>]
      [] D = "String" /\ v.t = "str" -> [ok |-> TRUE, val |-> v, err |-> <<>>]
      [] D = "Unit" /\ v.t = "null" -> [ok |-> TRUE, val |-> v, err |-> <<>>]
      [] D = "VecU64" /\ v.t = "arr" /\ (\A i \in 1..Len(v.a) : v.a[i].t = "num") ->
            [ok |-> TRUE, val |-> v, err |-> <<>>]
      [] D = "AlertResult" /\ v.t = "obj" ->
            LET idx == KeyIndex(v, <<"buttonReturned">>) IN
            IF idx = {} THEN [ok |-> FALSE, val |-> VNull,
                              err |-> <<"missing field buttonReturned">>]
            ELSE IF Cardinality(idx) > 1
            THEN [ok |-> FALSE, val |-> VNull,
                  err |-> <<"duplicate field buttonReturned">>]
            ELSE LET f == v.a[CHOOSE i \in idx : TRUE] IN
                 IF f.t = "str"
                 THEN [ok |-> TRUE, val |-> VObj(<<<<"button">>>>, <<f>>), err |-> <<>>]
                 ELSE [ok |-> FALSE, val |-> VNull, err |-> <<"invalid type">>]
      [] OTHER -> [ok |-> FALSE, val |-> VNull, err |-> <<"invalid type">>]

\* serde_json::from_slice::<D>(bytes): one value of type D, then only
\* whitespace up to the end of the input.
from_slice(bytes, D) ==
    LET p == ParseValue(bytes) IN
    IF ~p.ok THEN [ok |-> FALSE, val |-> VNull, err |-> p.err]
    ELSE LET d == IntoTarget(p.val, D) IN
         IF ~d.ok THEN d
         ELSE IF SkipWs(p.rest) # <<>>
         THEN [ok |-> FALSE, val |-> VNull, err |-> <<"trailing characters">>]
         ELSE d

\* ------------------------------------------------------------------------
\* Error, and the From conversions the ? operator applies
\* ------------------------------------------------------------------------

\* enum Error { Io(io::Error), Json(serde_json::Error), Script(String) }
ErrorKinds == {"Io", "Json", "Script"}

\* Mutant: an io::Error is reported as a script error.
FromIoError_AsScript(err) == [kind |-> "Script", msg |-> err]

FromIoError(err) == [kind |-> "Io", msg |-> err]

\* Mutant: a serde_json::Error is reported as a script error.
FromJsonError_AsScript(err) == [kind |-> "Script", msg |-> err]

FromJsonError(err) == [kind |-> "Json", msg |-> err]

\* Mutant: a FromUtf8Error is reported as an io error.
FromUtf8Error_AsIo(err) == [kind |-> "Io", msg |-> err]

FromUtf8Error(err) == [kind |-> "Script", msg |-> <<"UTF-8 Error: ">> \o err]

\* Result<D, Error>; tag "None" is a call that has not returned.
NoResult == [tag |-> "None", val |-> VNull, kind |-> "", msg |-> <<>>]
Ok(v) == [tag |-> "Ok", val |-> v, kind |-> "", msg |-> <<>>]
Err(e) == [tag |-> "Err", val |-> VNull, kind |-> e.kind, msg |-> e.msg]

\* ------------------------------------------------------------------------
\* wrap_code
\* ------------------------------------------------------------------------

EmptyParams == VObj(<<>>, <<>>)

WrapPre == "var $params = "
WrapMid == ";JSON.stringify((function() {"
WrapPost == ";return null;})());"

NoError == [kind |-> "", msg |-> <<>>]

\* The three write! / to_writer calls into buf, then String::from_utf8(buf):
\* lit is what to_writer appended for the params.
Assemble(lit, code) ==
    from_utf8(Utf8Encode(<<WrapPre>>) \o lit
              \o Utf8Encode(<<WrapMid>> \o code \o <<WrapPost>>))

WrapResult(str) ==
    IF str.ok THEN [ok |-> TRUE, text |-> str.val, err |-> NoError]
    ELSE [ok |-> FALSE, text |-> <<>>, err |-> FromUtf8Error(str.err)]

\* Mutant: the serde_json::Error of to_writer is dropped instead of returned.
wrap_code_IgnoreSerError(code, params) ==
    WrapResult(Assemble(to_writer(params).out, code))

\* Mutant: a unit value is serialized in place of the caller's params.
wrap_code_NullParams(code, params) ==
    LET ser == to_writer(params) IN
    IF ~ser.ok THEN [ok |-> FALSE, text |-> <<>>, err |-> FromJsonError(ser.err)]
    ELSE WrapResult(Assemble(to_writer(VNull).out, code))

RECURSIVE TrimStart(_)
TrimStart(text) ==
    IF text # <<>> /\ Head(text) \in Whitespace THEN TrimStart(Tail(text)) ELSE text

\* Mutant: the code body is trimmed before it is embedded.
wrap_code_Trim(code, params) ==
    LET ser == to_writer(params) IN
    IF ~ser.ok THEN [ok |-> FALSE, text |-> <<>>, err |-> FromJsonError(ser.err)]
    ELSE WrapResult(Assemble(ser.out, TrimStart(code)))

\* Result<String, Error>: ok and the program text, or the Error.
wrap_code(code, params) ==
    LET ser == to_writer(params) IN
    IF ~ser.ok THEN [ok |-> FALSE, text |-> <<>>, err |-> FromJsonError(ser.err)]
    ELSE WrapResult(Assemble(ser.out, code))

\* ------------------------------------------------------------------------
\* The child process: osascript -l JavaScript -e <program>
\* ------------------------------------------------------------------------

\* Statements a code body is made of.  A body is a sequence of these tokens.
StmtReturnAnswer == "return 40 + 2"
StmtReturnParams == "return $params"
StmtReturnUndefined == "return undefined"
StmtReturnAlert == "return {buttonReturned: \"OK\"}"
StmtThrow == "throw new Error(\"boom\")"
StmtVar == "var x = 1"
LineComment == "// set x"

\* A line comment runs to the end of its line.
RECURSIVE StripComments(_, _)
StripComments(toks, inComment) ==
    IF toks = <<>> THEN <<>>
    ELSE LET c == Head(toks) IN
         IF inComment
         THEN (IF c = Newline THEN <<c>> ELSE <<>>)
              \o StripComments(Tail(toks), c # Newline)
         ELSE IF c = LineComment THEN StripComments(Tail(toks), TRUE)
         ELSE <<c>> \o StripComments(Tail(toks), FALSE)

\* Running the statements of a function body with $params bound to pv:
\* the first return or throw decides; falling off the end is "end".
RECURSIVE RunBody(_, _)
RunBody(toks, pv) ==
    IF toks = <<>> THEN [how |-> "end", val |-> VUndef]
    ELSE LET c == Head(toks) IN
         IF c = StmtReturnAnswer THEN [how |-> "return", val |-> VNum(42)]
         ELSE IF c = StmtReturnParams THEN [how |-> "return", val |-> pv]
         ELSE IF c = StmtReturnUndefined THEN [how |-> "return", val |-> VUndef]
         ELSE IF c = StmtReturnAlert
         THEN [how |-> "return",
               val |-> VObj(<<<<"buttonReturned">>>>, <<VStr(<<"OK">>)>>)]
         ELSE IF c = StmtThrow THEN [how |-> "throw", val |-> VUndef]
         ELSE IF c = WrapPost THEN [how |-> "return", val |-> VNull]
         ELSE RunBody(Tail(toks), pv)

\* What a caller's code body does on its own, as the body of a function.
EvalBody(code, pv) == RunBody(StripComments(code, FALSE), pv)

\* JavaScript's JSON.stringify, as text.
RECURSIVE EscapeText(_)
EscapeText(text) ==
    IF text = <<>> THEN <<>>
    ELSE LET c == Head(text) IN
         (IF c = Quote THEN <<Backslash, Quote>>
          ELSE IF c = Backslash THEN <<Backslash, Backslash>>
          ELSE IF c = Newline THEN <<Backslash, "n">>
          ELSE <<c>>)
         \o EscapeText(Tail(text))

RECURSIVE JSON_stringify(_)
RECURSIVE StringifyItems(_, _, _)
StringifyItems(keys, vals, first) ==
    IF vals = <<>> THEN <<>>
    ELSE (IF first THEN <<>> ELSE <<",">>)
         \o (IF keys = <<>> THEN <<>>
             ELSE <<Quote>> \o EscapeText(Head(keys)) \o <<Quote, ":">>)
         \o JSON_stringify(Head(vals))
         \o StringifyItems(IF keys = <<>> THEN <<>> ELSE Tail(keys), Tail(vals), FALSE)

JSON_stringify(v) ==
    CASE v.t = "null" -> <<"n", "u", "l", "l">>
      [] v.t = "num" -> NatToText(v.n)
      [] v.t = "str" -> <<Quote>> \o EscapeText(v.s) \o <<Quote>>
      [] v.t = "arr" -> <<"[">> \o StringifyItems(<<>>, v.a, TRUE) \o <<"]">>
      [] v.t = "obj" -> <<"{">> \o StringifyItems(v.k, v.a, TRUE) \o <<"}">>

Output(status, stdout, stderr) ==
    [status |-> status, stdout |-> stdout, stderr |-> stderr]

SyntaxErrorOutput ==
    Output(1, <<>>, <<"script error: SyntaxError (-2700)", Newline>>)
ThrowOutput ==
    Output(1, <<>>, <<"execution error: Error: Error: ", "boom", " (-2700)", Newline>>)

\* The outputs of an interpreter that evaluates the program text as
\* JavaScript: the value of the last expression statement is printed, a line
\* of text; a value that is undefined prints nothing or an empty line.
Interpret(arg) ==
    LET text == StripComments(from_utf8(arg).val, FALSE) IN
    IF Len(text) < 3 \/ text[1] # WrapPre \/ text[Len(text)] # WrapPost
    THEN {SyntaxErrorOutput}
    ELSE LET lit == ParseValue(Utf8Encode(Tail(text))) IN
         IF ~lit.ok \/ lit.rest = <<>> \/ Head(lit.rest) # WrapMid
         THEN {SyntaxErrorOutput}
         ELSE LET r == RunBody(from_utf8(Tail(lit.rest)).val, lit.val) IN
              IF r.how = "throw" THEN {ThrowOutput}
              ELSE IF r.val.t = "undef"
              THEN {Output(0, <<>>, <<>>), Output(0, <<Newline>>, <<>>)}
              ELSE {Output(0, Utf8Encode(JSON_stringify(r.val)) \o <<Newline>>, <<>>)}

\* ------------------------------------------------------------------------
\* State
\* ------------------------------------------------------------------------

Callers == 1..NumCalls
Scripts == 1..NumScripts

VARIABLES
    code,          \* code[s]: the code field of JavaScript object s
    pc,            \* pc[i]: where caller i is in execute_with_params
    self,          \* self[i]: the JavaScript object caller i executes (0: none)
    params,        \* params[i]: the params argument of the call
    target,        \* target[i]: the type D the caller asks for
    wrapped_code,  \* wrapped_code[i]: the local of that name
    child,         \* child[i]: the osascript process of the call
    result         \* result[i]: what the call returned

vars == <<code, pc, self, params, target, wrapped_code, child, result>>

NoChild == [state |-> "none", arg |-> <<>>, faithful |-> FALSE,
            output |-> Output(0, <<>>, <<>>)]

\* What a caller's program passes, in the full and in the narrow configuration.
ParamsFull ==
    {VUnser, VNull, VNum(42), VArr(<<VNum(7), VUnser>>),
     VStr(<<"T", Quote, Backslash, "U+E9", Newline>>),
     VObj(<< <<"title">>, <<"buttons">> >>,
          <<VStr(<<"T">>), VArr(<<VStr(<<"A">>), VStr(<<"B">>)>>)>>)}
    \cup {VNum(x) : x \in 0..MaxNum}
ParamsNarrow == {VUnser, VNull, VStr(<<"U+E9">>)}

CodesFull ==
    {<<>>, <<StmtReturnAnswer>>, <<StmtReturnParams>>, <<StmtReturnAlert>>,
     <<StmtReturnUndefined>>, <<StmtThrow>>,
     <<Newline, StmtVar, ";", Newline, StmtReturnParams, ";", Newline>>,
     <<StmtVar, " ", LineComment>>, <<StmtReturnParams, " ", LineComment>>,
     <<LineComment, Newline, StmtReturnParams>>}
\* In the narrow configuration script s holds CodeNarrow(s).
CodeNarrow(s) == IF s % 2 = 1 THEN <<StmtReturnParams>> ELSE <<StmtThrow>>

\* Outputs of a child that does something else than evaluate the program
\* (another binary on the PATH, a crash, output written by the script).
OutputsFull ==
    {Output(0, so, se) :
        so \in {<<"4", "2", Newline>>, <<"4", "2", " ", "x">>, <<"n", "u", "l">>,
                <<"[", "1", ",", Quote, "a", Quote, "]">>, <<Quote, "xFF", Quote>>,
                <<"{", Quote, "buttonReturned", Quote, ":", "1", "}">>},
        se \in {<<>>, <<"w", "xFF">>}}
    \cup
    {Output(1, so, se) :
        so \in {<<>>, <<"4", "2", Newline>>},
        se \in {<<>>, <<"E", "r", "r", Newline>>, <<"a", "xC3", "xA9">>,
                <<"a", "xFF">>, <<"a", "b", "xC3">>, <<"xA9">>}}
OutputsNarrow == {Output(1, <<>>, <<"xFF">>)}

\* ------------------------------------------------------------------------
\* Operations
\* ------------------------------------------------------------------------

\* JavaScript::new(code) for every script, before any call; codes is the set
\* of assignments of a code body to every script.
InitWith(codes) ==
    /\ code \in codes
    /\ pc = [i \in Callers |-> "idle"]
    /\ self = [i \in Callers |-> 0]
    /\ params = [i \in Callers |-> VNull]
    /\ target = [i \in Callers |-> "Unit"]
    /\ wrapped_code = [i \in Callers |-> <<>>]
    /\ child = [i \in Callers |-> NoChild]
    /\ result = [i \in Callers |-> NoResult]

\* execute_with_params, up to and including wrap_code(&self.code, params)?,
\* called on one of the scripts ss with params from ps for a type from ds.
ExecuteWithParams(i, ss, ps, ds) ==
    \E s \in ss, p \in ps, D \in ds :
        /\ pc[i] = "idle"
        /\ self' = [self EXCEPT ![i] = s]
        /\ params' = [params EXCEPT ![i] = p]
        /\ target' = [target EXCEPT ![i] = D]
        /\ LET w == wrap_code(code[s], p) IN
           IF w.ok
           THEN /\ wrapped_code' = [wrapped_code EXCEPT ![i] = w.text]
                /\ pc' = [pc EXCEPT ![i] = "wrapped"]
                /\ result' = result
           ELSE /\ wrapped_code' = wrapped_code
                /\ pc' = [pc EXCEPT ![i] = "done"]
                /\ result' = [result EXCEPT ![i] = Err(w.err)]
        /\ UNCHANGED <<code, child>>

\* execute: self.execute_with_params(EmptyParams {})
Execute(i, ss, ds) == ExecuteWithParams(i, ss, {EmptyParams}, ds)

\* Mutant: the program is taken from a buffer all callers write to.
Spawn_SharedBuffer(i) ==
    /\ pc[i] = "wrapped"
    /\ \E j \in Callers :
          /\ wrapped_code[j] # <<>>
          /\ child' = [child EXCEPT ![i] =
                          [NoChild EXCEPT !.state = "running",
                                          !.arg = Utf8Encode(wrapped_code[j])]]
    /\ pc' = [pc EXCEPT ![i] = "waiting"]
    /\ UNCHANGED <<code, self, params, target, wrapped_code, result>>

\* Command::new("osascript")...output(): the process is created with the
\* program as its last argument, or creating it fails.
Spawn(i) ==
    /\ pc[i] = "wrapped"
    /\ \/ /\ child' = [child EXCEPT ![i] =
                          [NoChild EXCEPT !.state = "running",
                                          !.arg = Utf8Encode(wrapped_code[i])]]
          /\ pc' = [pc EXCEPT ![i] = "waiting"]
          /\ result' = result
       \/ /\ child' = child
          /\ pc' = [pc EXCEPT ![i] = "done"]
          /\ result' = [result EXCEPT ![i] =
                           Err(FromIoError(<<"No such file or directory">>))]
    /\ UNCHANGED <<code, self, params, target, wrapped_code>>

\* The child evaluates its program and exits.
ChildExits(i) ==
    /\ child[i].state = "running"
    /\ \E o \in Interpret(child[i].arg) :
          child' = [child EXCEPT ![i] =
                       [@ EXCEPT !.state = "exited", !.faithful = TRUE, !.output = o]]
    /\ UNCHANGED <<code, pc, self, params, target, wrapped_code, result>>

\* The child exits with some other status and output.
ChildExitsOtherwise(i, outs) ==
    /\ child[i].state = "running"
    /\ \E o \in outs :
          child' = [child EXCEPT ![i] =
                       [@ EXCEPT !.state = "exited", !.faithful = FALSE, !.output = o]]
    /\ UNCHANGED <<code, pc, self, params, target, wrapped_code, result>>

\* Mutant: standard error that is not UTF-8 is swallowed, nothing is decided.
DecodeOutput_Swallow(output, D) ==
    IF output.status = 0
    THEN LET d == from_slice(output.stdout, D) IN
         IF d.ok THEN Ok(d.val) ELSE Err(FromJsonError(d.err))
    ELSE LET m == from_utf8(output.stderr) IN
         IF m.ok THEN Err([kind |-> "Script", msg |-> m.val]) ELSE NoResult

\* Mutant: the message is taken from standard output.
DecodeOutput_StdoutMessage(output, D) ==
    IF output.status = 0
    THEN LET d == from_slice(output.stdout, D) IN
         IF d.ok THEN Ok(d.val) ELSE Err(FromJsonError(d.err))
    ELSE LET m == from_utf8(output.stdout) IN
         IF m.ok THEN Err([kind |-> "Script", msg |-> m.val])
         ELSE Err(FromUtf8Error(m.err))

\* The if/else at the end of execute_with_params.
DecodeOutput(output, D) ==
    IF output.status = 0
    THEN LET d == from_slice(output.stdout, D) IN
         IF d.ok THEN Ok(d.val) ELSE Err(FromJsonError(d.err))
    ELSE LET m == from_utf8(output.stderr) IN
         IF m.ok THEN Err([kind |-> "Script", msg |-> m.val])
         ELSE Err(FromUtf8Error(m.err))

\* output() returns once the child has exited; the call returns.
Return(i) ==
    /\ pc[i] = "waiting"
    /\ child[i].state = "exited"
    /\ result' = [result EXCEPT ![i] = DecodeOutput(child[i].output, target[i])]
    /\ pc' = [pc EXCEPT ![i] = "done"]
    /\ UNCHANGED <<code, self, params, target, wrapped_code, child>>

\* The caller takes the result; the caller is free to call again.
Drop(i) ==
    /\ pc[i] = "done"
    /\ pc' = [pc EXCEPT ![i] = "idle"]
    /\ self' = [self EXCEPT ![i] = 0]
    /\ params' = [params EXCEPT ![i] = VNull]
    /\ target' = [target EXCEPT ![i] = "Unit"]
    /\ wrapped_code' = [wrapped_code EXCEPT ![i] = <<>>]
    /\ child' = [child EXCEPT ![i] = NoChild]
    /\ result' = [result EXCEPT ![i] = NoResult]
    /\ UNCHANGED code

\* One caller, one script, the full range of inputs.
Init == InitWith({[s \in Scripts |-> IF s = 1 THEN c ELSE <<>>] : c \in CodesFull})

Next ==
    \/ ExecuteWithParams(1, {1}, ParamsFull, Targets)
    \/ Execute(1, {1}, Targets)
    \/ Spawn(1)
    \/ ChildExits(1)
    \/ ChildExitsOtherwise(1, OutputsFull)
    \/ Return(1)
    \/ Drop(1)

Spec == Init /\ [][Next]_vars

\* NumCalls concurrent callers on NumScripts scripts, a narrow range of inputs.
InitConc == InitWith({[s \in Scripts |-> CodeNarrow(s)]})

NextConc ==
    \E i \in Callers :
        \/ ExecuteWithParams(i, Scripts, ParamsNarrow, {"String"})
        \/ Execute(i, Scripts, {"String"})
        \/ Spawn(i)
        \/ ChildExits(i)
        \/ ChildExitsOtherwise(i, OutputsNarrow)
        \/ Return(i)
        \/ Drop(i)

SpecConc == InitConc /\ [][NextConc]_vars

\* ------------------------------------------------------------------------
\* Properties
\* ------------------------------------------------------------------------

Returned(i) == pc[i] = "done"
Exited(i) == child[i].state = "exited"
IsUtf8(bytes) == from_utf8(bytes).ok
\* The value a JSON text of v decodes to.
JsonRoundTrip(v) == ParseValue(to_writer(v).out).val

\* C1: a call that has returned holds exactly one of a decoded result (Ok,
\* no error) or a failure (Err of one of the Error variants, no value); a
\* call that has not returned holds neither.
C1_ExactlyOne ==
    \A i \in Callers :
        /\ Returned(i) <=> result[i].tag \in {"Ok", "Err"}
        /\ result[i].tag = "Ok" => result[i].kind = ""
        /\ result[i].tag = "Err" =>
              result[i].kind \in ErrorKinds /\ result[i].val = VNull
        /\ result[i].tag = "None" => result[i] = NoResult

C1_Witness ==
    Returned(1) /\ Exited(1) /\ child[1].output.status # 0
    /\ ~IsUtf8(child[1].output.stderr) /\ result[1].tag = "Err"

\* C2: when the params cannot be serialized the call returns a Json error
\* and no child process exists for it; a child process exists only for a
\* call whose wrap_code returned a program.
C2_NoSpawnOnSerFailure ==
    \A i \in Callers :
        /\ (pc[i] # "idle" /\ ~to_writer(params[i]).ok) =>
              /\ Returned(i)
              /\ result[i].tag = "Err" /\ result[i].kind = "Json"
              /\ child[i].state = "none"
        /\ child[i].state # "none" =>
              to_writer(params[i]).ok /\ wrapped_code[i] # <<>>

C2_Witness ==
    Returned(1) /\ params[1] = VArr(<<VNum(7), VUnser>>)
    /\ result[1].kind = "Json" /\ child[1].state = "none"

\* C3: after a non-zero exit with standard error that is valid UTF-8 the
\* call returns Error::Script whose message, encoded as UTF-8, is exactly the
\* captured standard error, whatever standard output holds.
C3_ScriptMessageIsStderr ==
    \A i \in Callers :
        (Returned(i) /\ Exited(i) /\ child[i].output.status # 0
         /\ IsUtf8(child[i].output.stderr)) =>
            /\ result[i].tag = "Err" /\ result[i].kind = "Script"
            /\ Utf8Encode(result[i].msg) = child[i].output.stderr

C3_Witness ==
    Returned(1) /\ Exited(1) /\ child[1].output.status # 0
    /\ child[1].output.stderr = <<"a", "xC3", "xA9">>
    /\ child[1].output.stdout # <<>>
    /\ result[1].msg = <<"a", "U+E9">>

\* C4: after a zero exit with standard output that is not JSON, or is JSON
\* that does not fit the requested type, the call returns Error::Json and
\* not Error::Script, whatever standard error holds.
C4_BadOutputIsJsonError ==
    \A i \in Callers :
        (Returned(i) /\ Exited(i) /\ child[i].output.status = 0
         /\ (~ParseValue(child[i].output.stdout).ok
             \/ SkipWs(ParseValue(child[i].output.stdout).rest) # <<>>
             \/ ~IntoTarget(ParseValue(child[i].output.stdout).val, target[i]).ok)) =>
            result[i].tag = "Err" /\ result[i].kind = "Json"

C4_Witness ==
    Returned(1) /\ Exited(1) /\ child[1].output.status = 0
    /\ target[1] = "AlertResult"
    /\ ParseValue(child[1].output.stdout).ok
    /\ ParseValue(child[1].output.stdout).val = VNum(42)
    /\ child[1].output.stderr # <<>>
    /\ result[1].kind = "Json"

\* Why a call failed, in the four kinds of the specification.
Cause(i) ==
    IF ~to_writer(params[i]).ok THEN "input-serialization"
    ELSE IF child[i].state = "none" THEN "transport"
    ELSE IF child[i].output.status = 0 THEN "output-deserialization"
    ELSE IF IsUtf8(child[i].output.stderr) THEN "script-reported"
    ELSE "undecodable"

Failed(i) == Returned(i) /\ result[i].tag = "Err"

\* C5 (as claimed): an input-serialization failure and an
\* output-deserialization failure are returned as different kinds.
C5_SerAndDeserDiffer ==
    \A i, j \in Callers :
        (Failed(i) /\ Failed(j) /\ Cause(i) = "input-serialization"
         /\ Cause(j) = "output-deserialization") =>
            result[i].kind # result[j].kind

\* C5 (amended): every failure is of exactly one of the three kinds Io, Json,
\* Script, decided by why the call failed: Io when the process could not be
\* created, Json both when the params could not be serialized and when
\* standard output could not be deserialized, Script after a non-zero exit.
C5_ThreeKinds ==
    \A i \in Callers :
        Failed(i) =>
            /\ result[i].kind \in ErrorKinds
            /\ result[i].kind =
                  (CASE Cause(i) = "transport" -> "Io"
                     [] Cause(i) = "input-serialization" -> "Json"
                     [] Cause(i) = "output-deserialization" -> "Json"
                     [] OTHER -> "Script")

C5_Witness ==
    /\ Failed(1) /\ Cause(1) = "input-serialization"
    /\ Failed(2) /\ Cause(2) = "output-deserialization"
    /\ result[1].kind = "Json" /\ result[2].kind = "Json"

\* C6 (as claimed): after a non-zero exit with standard error that is not
\* valid UTF-8 the call returns a failure of the Io kind.
C6_UndecodableIsIo ==
    \A i \in Callers :
        (Returned(i) /\ Exited(i) /\ child[i].output.status # 0
         /\ ~IsUtf8(child[i].output.stderr)) =>
            result[i].tag = "Err" /\ result[i].kind = "Io"

\* C6 (amended): after a non-zero exit with standard error that is not valid
\* UTF-8 the call returns Error::Script whose message is "UTF-8 Error: "
\* followed by the description of the decoding error.
C6_UndecodableIsScript ==
    \A i \in Callers :
        (Returned(i) /\ Exited(i) /\ child[i].output.status # 0
         /\ ~IsUtf8(child[i].output.stderr)) =>
            /\ result[i].tag = "Err" /\ result[i].kind = "Script"
            /\ Len(result[i].msg) > 1 /\ result[i].msg[1] = "UTF-8 Error: "

C6_Witness ==
    Returned(1) /\ Exited(1) /\ child[1].output.status # 0
    /\ child[1].output.stderr = <<"a", "xFF">>
    /\ result[1].kind = "Script"
    /\ result[1].msg =
          <<"UTF-8 Error: ", "invalid utf-8 sequence of 1 bytes from index ", "1">>

\* C7: when the interpreter evaluated the program and exited zero, and the
\* code body on its own returns a value v (with $params the caller's params
\* after a JSON round trip), the call returns v after a JSON round trip,
\* deserialized into the requested type; a body that returns $params gives
\* the caller's params back.
C7_RoundTrip ==
    \A i \in Callers :
        (Returned(i) /\ Exited(i) /\ child[i].faithful
         /\ child[i].output.status = 0) =>
            LET r == EvalBody(code[self[i]], JsonRoundTrip(params[i])) IN
            (r.how = "return" /\ r.val.t # "undef") =>
                LET d == IntoTarget(JsonRoundTrip(r.val), target[i]) IN
                /\ d.ok => result[i] = Ok(d.val)
                /\ ~d.ok => result[i].tag = "Err" /\ result[i].kind = "Json"
                /\ (code[self[i]] = <<StmtReturnParams>> /\ target[i] = "Value") =>
                      result[i] = Ok(params[i])

C7_Witness ==
    /\ Returned(1) /\ Exited(1) /\ child[1].faithful
    /\ code[1] = <<Newline, StmtVar, ";", Newline, StmtReturnParams, ";", Newline>>
    /\ params[1] = VStr(<<"T", Quote, Backslash, "U+E9", Newline>>)
    /\ target[1] = "String"
    /\ result[1] = Ok(params[1])

\* C8 (as claimed): when the interpreter evaluated the program of a code
\* body that executes no return statement, the process exits zero with the
\* JSON text null on standard output and the call does not fail (it returns
\* null to a caller whose type accepts null).
C8_NoReturnYieldsNull ==
    \A i \in Callers :
        (Returned(i) /\ Exited(i) /\ child[i].faithful
         /\ EvalBody(code[self[i]], JsonRoundTrip(params[i])).how = "end") =>
            /\ child[i].output.status = 0
            /\ ParseValue(child[i].output.stdout).ok
            /\ ParseValue(child[i].output.stdout).val = VNull
            /\ target[i] \in {"Unit", "Value"} => result[i] = Ok(VNull)

\* What caller i holds is made from its own call only.
C9_Own ==
    \A i \in Callers :
        /\ (pc[i] \in {"wrapped", "waiting"} \/ child[i].state # "none") =>
              /\ wrap_code(code[self[i]], params[i]).ok
              /\ wrapped_code[i] = wrap_code(code[self[i]], params[i]).text
        /\ child[i].state # "none" => child[i].arg = Utf8Encode(wrapped_code[i])
        /\ (Returned(i) /\ Exited(i)) =>
              result[i] = DecodeOutput(child[i].output, target[i])

\* A step changes what one caller holds and nothing any other caller holds,
\* and no script's code.
C9_Step ==
    /\ code' = code
    /\ \E i \in Callers :
          \A j \in Callers \ {i} :
              /\ pc'[j] = pc[j] /\ self'[j] = self[j] /\ params'[j] = params[j]
              /\ target'[j] = target[j] /\ wrapped_code'[j] = wrapped_code[j]
              /\ child'[j] = child[j] /\ result'[j] = result[j]

\* C9: under every interleaving of concurrent calls each call's program is
\* built from its own script and params, its child process gets that
\* program, its result is decoded from that child's exit status and output;
\* no step of one call changes what another call holds, and no step changes
\* a script's code.
C9_Isolation == []C9_Own /\ [][C9_Step]_vars

C9_Witness ==
    /\ self[1] = self[2] /\ params[1] # params[2]
    /\ child[1].state = "running" /\ Exited(2) /\ Returned(2)
    /\ child[1].arg # child[2].arg
    /\ result[2].tag = "Ok"

\* C10: the program wrap_code returns is, in this order, the statement
\* binding $params to a JSON literal that parses to the params, the function
\* opening, the caller's code body unchanged, and the postamble that returns
\* null, calls the function and serializes what it returned.
C10_ThreeParts ==
    \A i \in Callers :
        pc[i] = "wrapped" =>
            LET w == wrapped_code[i]
                lit == ParseValue(Utf8Encode(Tail(w)))
                body == code[self[i]]
            IN  /\ w[1] = WrapPre
                /\ lit.ok /\ lit.val = params[i]
                /\ from_utf8(lit.rest).val = <<WrapMid>> \o body \o <<WrapPost>>
                /\ SubSeq(w, Len(w) - Len(body), Len(w) - 1) = body
                /\ w[Len(w)] = WrapPost

C10_Witness ==
    /\ pc[1] = "wrapped"
    /\ code[1] = <<Newline, StmtVar, ";", Newline, StmtReturnParams, ";", Newline>>
    /\ params[1] = VObj(<< <<"title">>, <<"buttons">> >>,
                        <<VStr(<<"T">>), VArr(<<VStr(<<"A">>), VStr(<<"B">>)>>)>>)
    /\ Len(wrapped_code[1]) > 3 + Len(code[1])

====
